---- MODULE Spec2Model ----
(***************************************************************************)
(* Model of the two feed checkers of the repository:                      *)
(*   .github/scripts/check_gtfs_feeds.py      (static pipeline)           *)
(*   .github/scripts/check_realtime_feeds.py  (realtime pipeline)         *)
(*                                                                         *)
(* Strings of the program are TLA+ strings; messages are built with \o as *)
(* the f-strings build them.  A URL is parsed from its characters, which  *)
(* Chars spells out, because TLC cannot take a string apart.              *)
(***************************************************************************)
EXTENDS Integers, Sequences, FiniteSets, TLC

VARIABLES
    pipeline,          \* "static" | "realtime" : which script runs
    document,          \* what open()+json.load find: "missing" | "invalid" | "no_updaters" | "ok"
    feeds,             \* the loaded records (feeds / updaters), a sequence of dicts
    pc,                \* position of main()
    index,             \* static loop: number of records whose iteration has ended
    structure_errors,  \* counter of main()
    successful,        \* counter of main()
    failed,            \* counter of main()
    failed_feeds,      \* failed_feeds / failed_updaters list
    futures,           \* realtime: index -> state of the task submitted for that record
    results,           \* realtime: results list of main()
    exit_status,       \* NoExit until the process ends, then 0 or 1
    log,               \* history of the run: validator verdicts, probes, results collected,
                       \* per-record output, delays, summary
    v_in,              \* validator harness: the record handed to the validator
    v_out,             \* validator harness: what the validator did
    p_in,              \* prober harness: the outcome of each attempt, in order
    p_out,             \* prober harness: what check_url did
    pool               \* pool harness: the executor of the realtime main() under many tasks

vars == <<pipeline, document, feeds, pc, index, structure_errors, successful,
          failed, failed_feeds, futures, results, exit_status, log,
          v_in, v_out, p_in, p_out, pool>>

pipeVars == <<pipeline, document, feeds, pc, index, structure_errors, successful,
              failed, failed_feeds, futures, results, exit_status, log>>

-----------------------------------------------------------------------------
(* Bounds of the model *)

MaxRecords == 2        \* longest input document
MaxPoolRecords == 22   \* pool harness: most updaters of a document, more than MAX_WORKERS

-----------------------------------------------------------------------------
(* Configuration constants of the scripts *)

MAX_RETRIES == 2
MAX_WORKERS == 20
READ_SIZE == 1024
NoExit == 0 - 1

-----------------------------------------------------------------------------
(* Small helpers *)

Min(a, b) == IF a < b THEN a ELSE b

Range(s) == {s[i] : i \in 1..Len(s)}

\* '; '.join(errors)
RECURSIVE Join(_)
Join(errors) ==
    IF Len(errors) = 0 THEN ""
    ELSE IF Len(errors) = 1 THEN errors[1]
    ELSE errors[1] \o "; " \o Join(Tail(errors))

-----------------------------------------------------------------------------
(* urllib.parse.urlparse, as far as the validators use it: scheme, netloc  *)
(* and the ValueError it raises for an unbalanced IPv6 bracket.            *)

\* The spelling of each URL value the model uses.
Chars(s) ==
    CASE s = "http://x/f"  -> <<"h","t","t","p",":","/","/","x","/","f">>
      [] s = "https://y"   -> <<"h","t","t","p","s",":","/","/","y">>
      [] s = "x/f"         -> <<"x","/","f">>
      [] s = "//x/f"       -> <<"/","/","x","/","f">>
      [] s = "mailto:a"    -> <<"m","a","i","l","t","o",":","a">>
      [] s = "1tp://x"     -> <<"1","t","p",":","/","/","x">>
      [] s = "http://[::1" -> <<"h","t","t","p",":","/","/","[",":",":","1">>
      [] s = ""            -> <<>>
      [] s = "N/A"         -> <<"N","/","A">>

ALPHA == {"a","f","h","i","l","m","o","p","s","t","x","y","A","N"}
SCHEME_CHARS == ALPHA \cup {"0","1","2","3","4","5","6","7","8","9","+","-","."}

\* str.find, 1-based; 0 when absent
Find(s, C) ==
    IF \E i \in 1..Len(s) : s[i] \in C
    THEN CHOOSE i \in 1..Len(s) : s[i] \in C /\ \A j \in 1..(i-1) : s[j] \notin C
    ELSE 0

urlparse(url) ==
    LET s == Chars(url)
        i == Find(s, {":"})
        hasScheme == /\ i > 1
                     /\ s[1] \in ALPHA
                     /\ \A j \in 1..(i-1) : s[j] \in SCHEME_CHARS
        scheme == IF hasScheme THEN SubSeq(s, 1, i-1) ELSE <<>>
        rest == IF hasScheme THEN SubSeq(s, i+1, Len(s)) ELSE s
        hasNet == Len(rest) >= 2 /\ rest[1] = "/" /\ rest[2] = "/"
        after == SubSeq(rest, 3, Len(rest))
        d == Find(after, {"/", "?", "#"})
        netloc == IF ~hasNet THEN <<>>
                  ELSE IF d = 0 THEN after ELSE SubSeq(after, 1, d-1)
        unbalanced == ("[" \in Range(netloc)) # ("]" \in Range(netloc))
    IN  [raised |-> hasNet /\ unbalanced, scheme |-> scheme, netloc |-> netloc]

\* `not parsed.scheme or not parsed.netloc`
NotAbsolute(parsed) == parsed.scheme = <<>> \/ parsed.netloc = <<>>


-----------------------------------------------------------------------------
(* The structural validators.  A record is a function from the keys it has *)
(* to their values.  The validator either returns (is_valid, errors) or    *)
(* lets the exception of urlparse escape (raised = TRUE, nothing returned).*)

required_fields_static == <<"type", "source", "feedId", "reference">>
required_fields_realtime == <<"type", "url", "feedId">>

valid_types == {
    "gtfs-http", "gtfs_http",
    "stop-time-updater", "stop_time_updater",
    "vehicle-positions", "vehicle_positions",
    "trip-updates", "trip_updates",
    "vehicle-parking-updater", "vehicle_parking_updater",
    "bike-rental-updater", "bike_rental_updater",
    "bike-park-updater", "bike_park_updater",
    "real-time-alerts", "real_time_alerts",
    "alerts", "alert" }

\* for field in required_fields: if field not in record: errors.append(...)
RECURSIVE MissingErrors(_, _)
MissingErrors(required, record) ==
    IF required = <<>> THEN <<>>
    ELSE (IF Head(required) \notin DOMAIN record
          THEN << "Missing required field: " \o Head(required) >>
          ELSE <<>>) \o MissingErrors(Tail(required), record)

StaticTypeErrors(feed) ==
    IF "type" \in DOMAIN feed /\ feed["type"] # "gtfs"
    THEN << "Invalid type: " \o feed["type"] \o " (expected 'gtfs')" >>
    ELSE <<>>

RealtimeTypeErrors(updater) ==
    IF "type" \in DOMAIN updater /\ updater["type"] \notin valid_types
    THEN << "Invalid type: " \o updater["type"] \o " (expected valid OTP updater type)" >>
    ELSE <<>>

\* if key in record: parsed = urlparse(record[key]); if not scheme or not netloc: append
UrlErrors(record, key, label) ==
    IF key \in DOMAIN record /\ NotAbsolute(urlparse(record[key]))
    THEN << label \o record[key] >>
    ELSE <<>>

UrlRaises(record, key) == key \in DOMAIN record /\ urlparse(record[key]).raised

Raised == [raised |-> TRUE, valid |-> FALSE, errors |-> <<>>]

Returned(errors) == [raised |-> FALSE, valid |-> (Len(errors) = 0), errors |-> errors]

\* validate_feed_structure with the type check moved before the required-field loop
validate_feed_structure_TypeFirst(feed) ==
    IF UrlRaises(feed, "source") \/ UrlRaises(feed, "reference")
    THEN Raised
    ELSE Returned(StaticTypeErrors(feed)
                  \o MissingErrors(required_fields_static, feed)
                  \o UrlErrors(feed, "source", "Invalid source URL: ")
                  \o UrlErrors(feed, "reference", "Invalid reference URL: "))

validate_feed_structure(feed) ==
    IF UrlRaises(feed, "source") \/ UrlRaises(feed, "reference")
    THEN Raised
    ELSE Returned(MissingErrors(required_fields_static, feed)
                  \o StaticTypeErrors(feed)
                  \o UrlErrors(feed, "source", "Invalid source URL: ")
                  \o UrlErrors(feed, "reference", "Invalid reference URL: "))

validate_updater_structure(updater) ==
    IF UrlRaises(updater, "url")
    THEN Raised
    ELSE Returned(MissingErrors(required_fields_realtime, updater)
                  \o RealtimeTypeErrors(updater)
                  \o UrlErrors(updater, "url", "Invalid URL: "))

-----------------------------------------------------------------------------
(* The records the model feeds to the validators: every subset of the      *)
(* required keys, with every combination of the values below.              *)

UrlValues == {"http://x/f", "https://y", "x/f", "//x/f", "mailto:a", "1tp://x",
              "http://[::1", ""}
StaticTypeValues == {"gtfs", "GTFS"}
RealtimeTypeValues == {"vehicle-positions", "vehicle_positions", "alert", "bus"}
FeedIdValues == {"A"}

FieldValues(cat, key) ==
    CASE key = "type" -> (IF cat = "static" THEN StaticTypeValues ELSE RealtimeTypeValues)
      [] key = "feedId" -> FeedIdValues
      [] OTHER -> UrlValues

RequiredKeys(cat) ==
    IF cat = "static" THEN Range(required_fields_static)
    ELSE Range(required_fields_realtime)

AllValues == UrlValues \cup StaticTypeValues \cup RealtimeTypeValues \cup FeedIdValues

Records(cat) ==
    UNION { { r \in [K -> AllValues] : \A k \in K : r[k] \in FieldValues(cat, k) }
            : K \in SUBSET RequiredKeys(cat) }

Validate(cat, record) ==
    IF cat = "static" THEN validate_feed_structure(record)
    ELSE validate_updater_structure(record)

-----------------------------------------------------------------------------
(* Validator harness: one record, one call of its validator. *)

NotCalled == [called |-> FALSE, raised |-> FALSE, valid |-> FALSE, errors |-> <<>>]

Called(r) == [called |-> TRUE, raised |-> r.raised, valid |-> r.valid, errors |-> r.errors]

ValidateFeed ==
    /\ v_in.cat = "static"
    /\ ~v_out.called
    /\ v_out' = Called(validate_feed_structure(v_in.record))
    /\ UNCHANGED <<pipeVars, v_in, p_in, p_out, pool>>

ValidateUpdater ==
    /\ v_in.cat = "realtime"
    /\ ~v_out.called
    /\ v_out' = Called(validate_updater_structure(v_in.record))
    /\ UNCHANGED <<pipeVars, v_in, p_in, p_out, pool>>

-----------------------------------------------------------------------------
(* The reachability probers.  One attempt of check_url ends in one of the  *)
(* outcomes below.  urlopen returns a response only for a 2xx status, any  *)
(* other status reaches the caller as HTTPError; a failure to connect is a *)
(* URLError; a timeout while reading is a TimeoutError; anything else that *)
(* goes wrong (a truncated read, ...) is some other Exception.             *)

Response(status, body) ==
    [kind |-> "response", status |-> status, body |-> body, reason |-> "",
     content_type |-> "application/octet-stream", content_length |-> "unknown"]

HTTPError(code, reason) ==
    [kind |-> "http_error", status |-> code, body |-> <<>>, reason |-> reason,
     content_type |-> "", content_length |-> ""]

Failure(kind, reason) ==
    [kind |-> kind, status |-> 0, body |-> <<>>, reason |-> reason,
     content_type |-> "", content_length |-> ""]

\* Bodies, as byte values.  ZipBody is longer than one read(1024).
ZipBody == [i \in 1..(READ_SIZE + 2) |-> CASE i = 1 -> 80 [] i = 2 -> 75 [] i = 3 -> 3
                                            [] i = 4 -> 4 [] OTHER -> 0]
Bodies == { <<>>,            \* empty
            ZipBody,          \* PK\x03\x04 ...
            <<80, 75>>,       \* "PK", not the whole signature
            <<10>>,           \* \x0a
            <<10, 123>>,      \* \x0a {
            <<18, 5>>,        \* \x12 \x05
            <<26>>,           \* \x1a
            <<32, 123>>,      \* " {"
            <<91>>,           \* "["
            <<60>>,           \* "<"
            <<32>> }          \* " "

Outcomes ==
    { Response(200, b) : b \in Bodies }
    \cup { Response(204, <<>>), Response(204, <<123>>), Response(201, <<60>>) }
    \cup { HTTPError(404, "Not Found"), HTTPError(429, "Too Many Requests"),
           HTTPError(500, "Internal Server Error") }
    \cup { Failure("url_error", "Connection refused"),
           Failure("timeout", ""),
           Failure("exception", "IncompleteRead: 0 bytes read") }

\* What the network does to one call of check_url: the outcome of each attempt
\* it makes, and of one attempt more than the code allows itself.
Scripts == [1..(MAX_RETRIES + 1) -> Outcomes]

\* response.read(n)
Read(body, n) == SubSeq(body, 1, Min(n, Len(body)))

\* bytes.strip(), as far as startswith sees it: leading ASCII whitespace removed
WHITESPACE == {9, 10, 11, 12, 13, 32}
RECURSIVE Strip(_)
Strip(bytes) ==
    IF Len(bytes) > 0 /\ Head(bytes) \in WHITESPACE THEN Strip(Tail(bytes)) ELSE bytes

StartsWith(bytes, b) == Len(bytes) > 0 /\ bytes[1] = b

Ret(success, message, status_code, attempt, slept) ==
    [success |-> success, message |-> message, status_code |-> status_code,
     attempts |-> attempt + 1, sleeps |-> slept]

\* StaticResponse that accepts a 200 only when the sample has the ZIP signature
StaticResponse_ZipOnly(o, attempt, slept) ==
    IF o.status = 200
    THEN LET content_sample == Read(o.body, READ_SIZE) IN
         IF SubSeq(content_sample, 1, Min(4, Len(content_sample))) = <<80, 75, 3, 4>>
         THEN Ret(TRUE, "OK (ZIP file, " \o o.content_length \o " bytes)", o.status, attempt, slept)
         ELSE IF Len(content_sample) > 0
         THEN Ret(FALSE, "Not a ZIP file", o.status, attempt, slept)
         ELSE Ret(FALSE, "Empty response", o.status, attempt, slept)
    ELSE Ret(FALSE, "HTTP " \o ToString(o.status), o.status, attempt, slept)

\* check_gtfs_feeds.py, the body of `with urlopen(...) as response`
StaticResponse(o, attempt, slept) ==
    IF o.status = 200
    THEN LET content_sample == Read(o.body, READ_SIZE) IN
         IF SubSeq(content_sample, 1, Min(4, Len(content_sample))) = <<80, 75, 3, 4>>
         THEN Ret(TRUE, "OK (ZIP file, " \o o.content_length \o " bytes)", o.status, attempt, slept)
         ELSE IF Len(content_sample) > 0
         THEN Ret(TRUE, "OK (" \o o.content_type \o ", " \o o.content_length \o " bytes)",
                  o.status, attempt, slept)
         ELSE Ret(FALSE, "Empty response", o.status, attempt, slept)
    ELSE Ret(FALSE, "HTTP " \o ToString(o.status), o.status, attempt, slept)

\* check_realtime_feeds.py, the body of `with urlopen(...) as response`
RealtimeResponse(o, attempt, slept) ==
    IF o.status = 200
    THEN LET content_sample == Read(o.body, READ_SIZE) IN
         IF Len(content_sample) > 0
         THEN LET is_protobuf == SubSeq(content_sample, 1, Min(2, Len(content_sample)))
                                     \in {<<10>>, <<18>>, <<26>>}
                  is_json == \/ StartsWith(Strip(content_sample), 123)
                             \/ StartsWith(Strip(content_sample), 91)
              IN  IF is_protobuf
                  THEN Ret(TRUE, "OK (GTFS-RT protobuf, " \o o.content_length \o " bytes)",
                           o.status, attempt, slept)
                  ELSE IF is_json
                  THEN Ret(TRUE, "OK (JSON, " \o o.content_length \o " bytes)",
                           o.status, attempt, slept)
                  ELSE Ret(TRUE, "OK (" \o o.content_type \o ", " \o o.content_length \o " bytes)",
                           o.status, attempt, slept)
         ELSE Ret(FALSE, "Empty response", o.status, attempt, slept)
    ELSE IF o.status = 204
    THEN Ret(TRUE, "OK (No Content - no updates available)", o.status, attempt, slept)
    ELSE IF o.status = 429
    THEN Ret(TRUE, "OK (Rate limited - endpoint is working)", o.status, attempt, slept)
    ELSE Ret(FALSE, "HTTP " \o ToString(o.status), o.status, attempt, slept)

\* ErrorReturn that loses the status of the HTTP error
ErrorReturn_ZeroCode(o, attempt, slept) ==
    CASE o.kind = "http_error" ->
            Ret(FALSE, "HTTP " \o ToString(o.status) \o ": " \o o.reason, 0, attempt, slept)
      [] o.kind = "url_error" ->
            Ret(FALSE, "Connection error: " \o o.reason, 0, attempt, slept)
      [] o.kind = "timeout" ->
            Ret(FALSE, "Timeout", 0, attempt, slept)
      [] OTHER ->
            Ret(FALSE, "Error: " \o o.reason, 0, attempt, slept)

\* The `return False, ...` of the four except clauses, reached on the last attempt
ErrorReturn(o, attempt, slept) ==
    CASE o.kind = "http_error" ->
            Ret(FALSE, "HTTP " \o ToString(o.status) \o ": " \o o.reason, o.status, attempt, slept)
      [] o.kind = "url_error" ->
            Ret(FALSE, "Connection error: " \o o.reason, 0, attempt, slept)
      [] o.kind = "timeout" ->
            Ret(FALSE, "Timeout", 0, attempt, slept)
      [] OTHER ->
            Ret(FALSE, "Error: " \o o.reason, 0, attempt, slept)

\* RateLimited without the 429 clause: the HTTP error is retried like any other
RateLimited_Never(o) == FALSE

\* `if e.code == 429: return True, ...` of the realtime except HTTPError clause
RateLimited(o) == o.kind = "http_error" /\ o.status = 429

\* for attempt in range(retries): ...   (attempt counts from 0, as in the code)
RECURSIVE StaticAttempts(_, _, _, _)
StaticAttempts(script, retries, attempt, slept) ==
    IF attempt >= retries
    THEN [success |-> FALSE, message |-> "Max retries exceeded", status_code |-> 0,
          attempts |-> attempt, sleeps |-> slept]
    ELSE LET o == script[attempt + 1] IN
         IF o.kind = "response" THEN StaticResponse(o, attempt, slept)
         ELSE IF attempt < retries - 1
         THEN StaticAttempts(script, retries, attempt + 1, slept + 1)   \* time.sleep(1); continue
         ELSE ErrorReturn(o, attempt, slept)

RECURSIVE RealtimeAttempts(_, _, _, _)
RealtimeAttempts(script, retries, attempt, slept) ==
    IF attempt >= retries
    THEN [success |-> FALSE, message |-> "Max retries exceeded", status_code |-> 0,
          attempts |-> attempt, sleeps |-> slept]
    ELSE LET o == script[attempt + 1] IN
         IF o.kind = "response" THEN RealtimeResponse(o, attempt, slept)
         ELSE IF RateLimited(o)
         THEN Ret(TRUE, "OK (Rate limited - endpoint is working)", o.status, attempt, slept)
         ELSE IF attempt < retries - 1
         THEN RealtimeAttempts(script, retries, attempt + 1, slept + 1) \* time.sleep(0.5); continue
         ELSE ErrorReturn(o, attempt, slept)

\* check_url that remembers the status of an HTTP error of the first attempt
\* and returns it with the second attempt's message
check_url_static_KeepsFirstCode(script) ==
    LET r == StaticAttempts(script, MAX_RETRIES, 0, 0) IN
    IF script[1].kind = "http_error" /\ r.attempts > 1
    THEN [r EXCEPT !.status_code = script[1].status]
    ELSE r

\* check_url with `range(retries + 1)`: one attempt too many
check_url_static_ExtraAttempt(script) == StaticAttempts(script, MAX_RETRIES + 1, 0, 0)

\* check_url that gives up on the first error
check_url_static_NoRetry(script) == StaticAttempts(script, 1, 0, 0)

check_url_static(script) == StaticAttempts(script, MAX_RETRIES, 0, 0)

\* check_url whose except HTTPError clause retries before it looks at the code,
\* so that a 429 is accepted on the last attempt only
check_url_realtime_RetriesRateLimit(script) ==
    IF RateLimited(script[1])
    THEN RealtimeAttempts(script, MAX_RETRIES, 1, 1)
    ELSE RealtimeAttempts(script, MAX_RETRIES, 0, 0)

check_url_realtime(script) == RealtimeAttempts(script, MAX_RETRIES, 0, 0)

\* Every way a call of check_url can end, over all the network can do to it
StaticProbes == { check_url_static(script) : script \in Scripts }

RealtimeProbes == { check_url_realtime(script) : script \in Scripts }

-----------------------------------------------------------------------------
(* Prober harness: one script of attempt outcomes, one call of check_url. *)

NotProbed == [called |-> FALSE, success |-> FALSE, message |-> "", status_code |-> 0,
              attempts |-> 0, sleeps |-> 0]

Probed(r) == [called |-> TRUE, success |-> r.success, message |-> r.message,
              status_code |-> r.status_code, attempts |-> r.attempts, sleeps |-> r.sleeps]

CheckUrlStatic ==
    /\ p_in.policy = "static"
    /\ ~p_out.called
    /\ p_out' = Probed(check_url_static(p_in.script))
    /\ UNCHANGED <<pipeVars, v_in, v_out, p_in, pool>>

CheckUrlRealtime ==
    /\ p_in.policy = "realtime"
    /\ ~p_out.called
    /\ p_out' = Probed(check_url_realtime(p_in.script))
    /\ UNCHANGED <<pipeVars, v_in, v_out, p_in, pool>>

-----------------------------------------------------------------------------
(* The input documents of the pipelines. *)

\* dict.get(key, default)
Get(record, key, default) == IF key \in DOMAIN record THEN record[key] ELSE default

\* The records the pipelines are run on: a valid one, and one for each way
\* the validator can end (missing key, wrong type, relative URL, exception).
StaticFeeds ==
    { r \in Records("static") :
        /\ "reference" \in DOMAIN r /\ r["reference"] = "https://y"
        /\ "type" \in DOMAIN r
        /\ "source" \in DOMAIN r
        /\ \/ r["type"] = "gtfs" /\ r["source"] = "http://x/f"
           \/ r["type"] = "GTFS" /\ r["source"] = "http://x/f" /\ "feedId" \in DOMAIN r
           \/ r["type"] = "gtfs" /\ r["source"] \in {"x/f", "http://[::1"}
                                 /\ "feedId" \in DOMAIN r }

RealtimeUpdaters ==
    { r \in Records("realtime") :
        /\ "type" \in DOMAIN r
        /\ "url" \in DOMAIN r
        /\ \/ r["type"] = "vehicle-positions" /\ r["url"] = "http://x/f"
           \/ r["type"] = "bus" /\ r["url"] = "http://x/f" /\ "feedId" \in DOMAIN r
           \/ r["type"] = "alert" /\ r["url"] \in {"x/f", "http://[::1"}
                                  /\ "feedId" \in DOMAIN r }

SeqsUpTo(S, n) == UNION { [1..k -> S] : k \in 0..n }

Doc(state, records) == [state |-> state, records |-> records]

Documents(p) ==
    IF p = "static"
    THEN { Doc("missing", <<>>), Doc("invalid", <<>>) }
         \cup { Doc("ok", rs) : rs \in SeqsUpTo(StaticFeeds, MaxRecords) }
    ELSE { Doc("missing", <<>>), Doc("invalid", <<>>), Doc("no_updaters", <<>>) }
         \cup { Doc("ok", rs) : rs \in SeqsUpTo(RealtimeUpdaters, MaxRecords) }

Ev(e, i) == [ev |-> e, i |-> i]

FailedEntry(i, feed_id, url, error) ==
    [index |-> i, feedId |-> feed_id, url |-> url, error |-> error]

-----------------------------------------------------------------------------
(* check_gtfs_feeds.py : main() *)

\* LoadOutcome without the `'updaters' not in realtime_data` check
LoadOutcome_NoKeyLoads(p, doc) ==
    IF doc.state \in {"missing", "invalid"} THEN "exit" ELSE "loaded"

\* load_dataset() / load_realtime_data(): sys.exit(1) on FileNotFoundError and
\* on JSONDecodeError; realtime main(): sys.exit(1) without an 'updaters' key
LoadOutcome(p, doc) ==
    IF doc.state \in {"missing", "invalid"} THEN "exit"
    ELSE IF p = "realtime" /\ doc.state = "no_updaters" THEN "exit"
    ELSE "loaded"

StaticLoad ==
    /\ pipeline = "static"
    /\ pc = "load"
    /\ IF LoadOutcome(pipeline, document) = "exit"
       THEN /\ exit_status' = 1
            /\ pc' = "exited"
            /\ UNCHANGED feeds
       ELSE /\ feeds' = document.records
            /\ pc' = "loop"
            /\ UNCHANGED exit_status
    /\ UNCHANGED <<pipeline, document, index, structure_errors, successful, failed,
                   failed_feeds, futures, results, log, v_in, v_out, p_in, p_out, pool>>

\* Delay without the test of the last record
Delay_Always(i, total) == <<Ev("delay", i)>>

\* `if index < total: time.sleep(DELAY_BETWEEN_CHECKS)`
Delay(i, total) == IF i < total THEN <<Ev("delay", i)>> ELSE <<>>

\* One iteration of `for index, feed in enumerate(feeds, 1)`
StaticIteration ==
    /\ pipeline = "static"
    /\ pc = "loop"
    /\ index < Len(feeds)
    /\ LET i == index + 1
           feed == feeds[i]
           feed_id == Get(feed, "feedId", "feed-" \o ToString(i))
           source_url == Get(feed, "source", "N/A")
           v == validate_feed_structure(feed)
       IN  IF v.raised
           THEN \* the exception leaves main(): traceback, exit status 1
                /\ log' = log \o <<Ev("out", i), Ev("validate_raised", i)>>
                /\ exit_status' = 1
                /\ pc' = "exited"
                /\ UNCHANGED <<index, structure_errors, successful, failed, failed_feeds>>
           ELSE IF ~v.valid
           THEN \* `continue`: neither probe nor delay
                /\ structure_errors' = structure_errors + 1
                /\ failed_feeds' = Append(failed_feeds,
                                          FailedEntry(i, feed_id, source_url, Join(v.errors)))
                /\ log' = log \o <<Ev("out", i), Ev("validate_invalid", i)>>
                /\ index' = i
                /\ UNCHANGED <<successful, failed, exit_status, pc>>
           ELSE \E r \in StaticProbes :           \* check_url(source_url)
                /\ IF r.success
                   THEN /\ successful' = successful + 1
                        /\ log' = log \o <<Ev("out", i), Ev("validate_ok", i),
                                           Ev("probe_success", i)>> \o Delay(i, Len(feeds))
                        /\ UNCHANGED <<failed, failed_feeds>>
                   ELSE /\ failed' = failed + 1
                        /\ failed_feeds' = Append(failed_feeds,
                                                  FailedEntry(i, feed_id, source_url, r.message))
                        /\ log' = log \o <<Ev("out", i), Ev("validate_ok", i),
                                           Ev("probe_failure", i)>> \o Delay(i, Len(feeds))
                        /\ UNCHANGED successful
                /\ index' = i
                /\ UNCHANGED <<structure_errors, exit_status, pc>>
    /\ UNCHANGED <<pipeline, document, feeds, futures, results, v_in, v_out, p_in, p_out, pool>>

\* ExitCode that looks at the failed probes only
ExitCode_IgnoresStructure(nfailed, nstructure) == IF nfailed > 0 THEN 1 ELSE 0

\* `if failed > 0 or structure_errors > 0: sys.exit(1) else: sys.exit(0)`
ExitCode(nfailed, nstructure) == IF nfailed > 0 \/ nstructure > 0 THEN 1 ELSE 0

\* The summary and the exit, after the loop
StaticSummary ==
    /\ pipeline = "static"
    /\ pc = "loop"
    /\ index = Len(feeds)
    /\ log' = Append(log, Ev("summary", 0))
    /\ exit_status' = ExitCode(failed, structure_errors)
    /\ pc' = "exited"
    /\ UNCHANGED <<pipeline, document, feeds, index, structure_errors, successful, failed,
                   failed_feeds, futures, results, v_in, v_out, p_in, p_out, pool>>

-----------------------------------------------------------------------------
(* check_realtime_feeds.py : check_updater() and main() *)

\* The result dict of check_updater.  raised and probed are not keys of the
\* dict: raised says that the call ended in an exception instead of a
\* result, probed that check_url was called.
Result(updater, i, v, probed, success, message, status_code) ==
    [index |-> i,
     type |-> Get(updater, "type", "unknown"),
     feedId |-> Get(updater, "feedId", "unknown"),
     url |-> Get(updater, "url", "N/A"),
     structure_valid |-> v.valid,
     structure_errors |-> v.errors,
     url_success |-> success,
     url_message |-> message,
     status_code |-> status_code,
     raised |-> v.raised,
     probed |-> probed]

\* check_updater without the early return for an invalid record
check_updater_ProbesInvalid(updater, i, probe) ==
    LET v == validate_updater_structure(updater) IN
    IF v.raised
    THEN Result(updater, i, v, FALSE, FALSE, "", 0)
    ELSE Result(updater, i, v, TRUE, probe.success, probe.message, probe.status_code)

\* probe is what check_url(url) returns if it is called
check_updater(updater, i, probe) ==
    LET v == validate_updater_structure(updater) IN
    IF v.raised \/ ~v.valid
    THEN Result(updater, i, v, FALSE, FALSE, "", 0)       \* `if not is_valid: return result`
    ELSE Result(updater, i, v, TRUE, probe.success, probe.message, probe.status_code)

NoResult == Result(<<>>, 0, Raised, FALSE, FALSE, "", 0)

Future(state, result) == [state |-> state, result |-> result]

Running == {i \in DOMAIN futures : futures[i].state = "running"}

RealtimeLoad ==
    /\ pipeline = "realtime"
    /\ pc = "load"
    /\ IF LoadOutcome(pipeline, document) = "exit"
       THEN /\ exit_status' = 1
            /\ pc' = "exited"
            /\ UNCHANGED feeds
       ELSE /\ feeds' = document.records
            /\ pc' = "submit"
            /\ UNCHANGED exit_status
    /\ UNCHANGED <<pipeline, document, index, structure_errors, successful, failed,
                   failed_feeds, futures, results, log, v_in, v_out, p_in, p_out, pool>>

\* executor.submit(check_updater, updater, index, total) for every updater
Submit ==
    /\ pipeline = "realtime"
    /\ pc = "submit"
    /\ futures' = [i \in 1..Len(feeds) |-> Future("pending", NoResult)]
    /\ pc' = "collect"
    /\ UNCHANGED <<pipeline, document, feeds, index, structure_errors, successful, failed,
                   failed_feeds, results, exit_status, log, v_in, v_out, p_in, p_out, pool>>

\* An executor without a limit: one thread per task
WorkerAvailable_Unbounded(nrunning) == nrunning >= 0

\* ThreadPoolExecutor(max_workers=MAX_WORKERS): a queued task starts only
\* while fewer than max_workers threads are busy
WorkerAvailable(nrunning) == nrunning < MAX_WORKERS

\* A worker thread of the pool takes the oldest queued task
WorkerStart(i) ==
    /\ pipeline = "realtime"
    /\ pc \in {"collect", "unwind"}
    /\ i \in DOMAIN futures
    /\ futures[i].state = "pending"
    /\ \A j \in 1..(i-1) : futures[j].state # "pending"
    /\ WorkerAvailable(Cardinality(Running))
    /\ futures' = [futures EXCEPT ![i].state = "running"]
    /\ UNCHANGED <<pipeline, document, feeds, pc, index, structure_errors, successful,
                   failed, failed_feeds, results, exit_status, log, v_in, v_out, p_in, p_out, pool>>

WorkerEvents(r) ==
    IF r.raised THEN <<Ev("validate_raised", r.index)>>
    ELSE IF ~r.structure_valid THEN <<Ev("validate_invalid", r.index)>>
    ELSE IF ~r.probed THEN <<Ev("validate_ok", r.index)>>
    ELSE IF r.url_success THEN <<Ev("validate_ok", r.index), Ev("probe_success", r.index)>>
    ELSE <<Ev("validate_ok", r.index), Ev("probe_failure", r.index)>>

\* The worker runs check_updater to its end
WorkerRun(i) ==
    /\ pipeline = "realtime"
    /\ pc \in {"collect", "unwind"}
    /\ i \in DOMAIN futures
    /\ futures[i].state = "running"
    /\ \E probe \in RealtimeProbes :
         LET r == check_updater(feeds[i], i, probe) IN
         /\ futures' = [futures EXCEPT ![i] = Future("done", r)]
         /\ log' = log \o WorkerEvents(r)
    /\ UNCHANGED <<pipeline, document, feeds, pc, index, structure_errors, successful,
                   failed, failed_feeds, results, exit_status, v_in, v_out, p_in, p_out, pool>>

\* `if completed % 10 == 0 or completed == total: print(progress)`
Progress(completed, total) ==
    IF completed % 10 = 0 \/ completed = total THEN <<Ev("progress", completed)>> ELSE <<>>

\* One iteration of `for future in as_completed(...)`: future.result() either
\* returns the result or re-raises the exception of the task
Collect(i) ==
    /\ pipeline = "realtime"
    /\ pc = "collect"
    /\ i \in DOMAIN futures
    /\ futures[i].state = "done"
    /\ futures' = [futures EXCEPT ![i].state = "collected"]
    /\ IF futures[i].result.raised
       THEN /\ pc' = "unwind"
            /\ log' = Append(log, Ev("collect", i))
            /\ UNCHANGED results
       ELSE /\ results' = Append(results, futures[i].result)
            /\ log' = log \o <<Ev("collect", i)>> \o Progress(Len(results) + 1, Len(feeds))
            /\ UNCHANGED pc
    /\ UNCHANGED <<pipeline, document, feeds, index, structure_errors, successful,
                   failed, failed_feeds, exit_status, v_in, v_out, p_in, p_out, pool>>

\* The exception leaves the `with` block, which waits for every task, and
\* then leaves main(): traceback, exit status 1
Crash ==
    /\ pipeline = "realtime"
    /\ pc = "unwind"
    /\ \A i \in DOMAIN futures : futures[i].state \in {"done", "collected"}
    /\ exit_status' = 1
    /\ pc' = "exited"
    /\ UNCHANGED <<pipeline, document, feeds, index, structure_errors, successful, failed,
                   failed_feeds, futures, results, log, v_in, v_out, p_in, p_out, pool>>

\* results.sort(key=lambda x: x['index'])
RECURSIVE InsertByIndex(_, _)
InsertByIndex(sorted, x) ==
    IF sorted = <<>> THEN <<x>>
    ELSE IF x.index < Head(sorted).index THEN <<x>> \o sorted
    ELSE <<Head(sorted)>> \o InsertByIndex(Tail(sorted), x)

RECURSIVE SortByIndex(_)
SortByIndex(rs) ==
    IF rs = <<>> THEN <<>>
    ELSE InsertByIndex(SortByIndex(SubSeq(rs, 1, Len(rs) - 1)), rs[Len(rs)])

\* Tally that leaves the invalid records out of failed_updaters
Tally_InvalidNotListed(acc, result) ==
    IF ~result.structure_valid
    THEN [acc EXCEPT !.structure_errors = @ + 1,
                     !.out = Append(@, Ev("out", result.index))]
    ELSE IF result.url_success
    THEN [acc EXCEPT !.successful = @ + 1,
                     !.out = Append(@, Ev("out", result.index))]
    ELSE [acc EXCEPT !.failed = @ + 1,
                     !.failed_updaters = Append(@, FailedEntry(result.index, result.feedId,
                                                result.url, result.url_message)),
                     !.out = Append(@, Ev("out", result.index))]

\* Tally that counts an invalid record as a failed one too
Tally_InvalidAlsoFailed(acc, result) ==
    IF ~result.structure_valid
    THEN [acc EXCEPT !.structure_errors = @ + 1,
                     !.failed = @ + 1,
                     !.failed_updaters = Append(@, FailedEntry(result.index, result.feedId,
                                                result.url, Join(result.structure_errors))),
                     !.out = Append(@, Ev("out", result.index))]
    ELSE IF result.url_success
    THEN [acc EXCEPT !.successful = @ + 1,
                     !.out = Append(@, Ev("out", result.index))]
    ELSE [acc EXCEPT !.failed = @ + 1,
                     !.failed_updaters = Append(@, FailedEntry(result.index, result.feedId,
                                                result.url, result.url_message)),
                     !.out = Append(@, Ev("out", result.index))]

\* The body of `for result in results` of the report
Tally(acc, result) ==
    IF ~result.structure_valid
    THEN [acc EXCEPT !.structure_errors = @ + 1,
                     !.failed_updaters = Append(@, FailedEntry(result.index, result.feedId,
                                                result.url, Join(result.structure_errors))),
                     !.out = Append(@, Ev("out", result.index))]
    ELSE IF result.url_success
    THEN [acc EXCEPT !.successful = @ + 1,
                     !.out = Append(@, Ev("out", result.index))]
    ELSE [acc EXCEPT !.failed = @ + 1,
                     !.failed_updaters = Append(@, FailedEntry(result.index, result.feedId,
                                                result.url, result.url_message)),
                     !.out = Append(@, Ev("out", result.index))]

RECURSIVE Aggregate(_, _)
Aggregate(rs, acc) ==
    IF rs = <<>> THEN acc ELSE Aggregate(Tail(rs), Tally(acc, Head(rs)))

\* After the pool: sort, per-record report, summary, exit
RealtimeReport ==
    /\ pipeline = "realtime"
    /\ pc = "collect"
    /\ \A i \in DOMAIN futures : futures[i].state = "collected"
    /\ LET sorted == SortByIndex(results)
           acc == Aggregate(sorted, [structure_errors |-> structure_errors,
                                     successful |-> successful,
                                     failed |-> failed,
                                     failed_updaters |-> failed_feeds,
                                     out |-> <<>>])
       IN  /\ results' = sorted
           /\ structure_errors' = acc.structure_errors
           /\ successful' = acc.successful
           /\ failed' = acc.failed
           /\ failed_feeds' = acc.failed_updaters
           /\ log' = log \o acc.out \o <<Ev("summary", 0)>>
           /\ exit_status' = ExitCode(acc.failed, acc.structure_errors)
    /\ pc' = "exited"
    /\ UNCHANGED <<pipeline, document, feeds, index, futures, v_in, v_out, p_in, p_out, pool>>

-----------------------------------------------------------------------------
(* Pool harness: the executor of the realtime main() with more updaters than
   worker threads.  The tasks are told apart by the index they were submitted
   with while they wait; of the running and finished ones the numbers are kept. *)

NoPool == [total |-> 0, submitted |-> FALSE, queue |-> <<>>, running |-> 0,
           finished |-> 0, checks |-> <<>>]

\* `{executor.submit(check_updater, updater, index, total): ... for index, updater
\* in enumerate(updaters, 1)}`: one task for each updater, queued in input order
PoolSubmit ==
    /\ ~pool.submitted
    /\ pool' = [pool EXCEPT !.submitted = TRUE,
                            !.queue = [k \in 1..pool.total |-> k]]
    /\ UNCHANGED <<pipeVars, v_in, v_out, p_in, p_out>>

\* A worker thread takes the oldest queued task and calls check_updater for
\* its updater
PoolStart ==
    /\ pool.submitted
    /\ pool.queue # <<>>
    /\ WorkerAvailable(pool.running)
    /\ pool' = [pool EXCEPT !.queue = Tail(@),
                            !.running = @ + 1,
                            !.checks[Head(pool.queue)] = @ + 1]
    /\ UNCHANGED <<pipeVars, v_in, v_out, p_in, p_out>>

\* check_updater returns (or raises) in one of the busy threads, which is free
\* for the next task
PoolFinish ==
    /\ pool.running > 0
    /\ pool' = [pool EXCEPT !.running = @ - 1, !.finished = @ + 1]
    /\ UNCHANGED <<pipeVars, v_in, v_out, p_in, p_out>>

-----------------------------------------------------------------------------
(* Specifications *)

PipelineIdle ==
    /\ pipeline = "none"
    /\ document = Doc("ok", <<>>)
    /\ feeds = <<>>
    /\ pc = "idle"
    /\ index = 0
    /\ structure_errors = 0
    /\ successful = 0
    /\ failed = 0
    /\ failed_feeds = <<>>
    /\ futures = <<>>
    /\ results = <<>>
    /\ exit_status = NoExit
    /\ log = <<>>

ValidateIdle ==
    /\ v_in = [cat |-> "none", record |-> <<>>]
    /\ v_out = NotCalled

ProbeIdle ==
    /\ p_in = [policy |-> "none", script |-> <<>>]
    /\ p_out = NotProbed

PoolIdle == pool = NoPool

\* The two scripts, each started on every input document
Init ==
    /\ pipeline \in {"static", "realtime"}
    /\ document \in Documents(pipeline)
    /\ feeds = <<>>
    /\ pc = "load"
    /\ index = 0
    /\ structure_errors = 0
    /\ successful = 0
    /\ failed = 0
    /\ failed_feeds = <<>>
    /\ futures = <<>>
    /\ results = <<>>
    /\ exit_status = NoExit
    /\ log = <<>>
    /\ ValidateIdle
    /\ ProbeIdle
    /\ PoolIdle

Next ==
    \/ StaticLoad
    \/ StaticIteration
    \/ StaticSummary
    \/ RealtimeLoad
    \/ Submit
    \/ \E i \in DOMAIN futures : WorkerStart(i)
    \/ \E i \in DOMAIN futures : WorkerRun(i)
    \/ \E i \in DOMAIN futures : Collect(i)
    \/ Crash
    \/ RealtimeReport

Spec == Init /\ [][Next]_vars

\* Each validator applied to every record
InitValidate ==
    /\ PipelineIdle
    /\ ProbeIdle
    /\ PoolIdle
    /\ \E cat \in {"static", "realtime"} :
         \E record \in Records(cat) : v_in = [cat |-> cat, record |-> record]
    /\ v_out = NotCalled

NextValidate == ValidateFeed \/ ValidateUpdater

SpecValidate == InitValidate /\ [][NextValidate]_vars

\* Each check_url applied to every script of attempt outcomes
InitProbe ==
    /\ PipelineIdle
    /\ ValidateIdle
    /\ PoolIdle
    /\ \E policy \in {"static", "realtime"} :
         \E script \in Scripts : p_in = [policy |-> policy, script |-> script]
    /\ p_out = NotProbed

NextProbe == CheckUrlStatic \/ CheckUrlRealtime

SpecProbe == InitProbe /\ [][NextProbe]_vars

\* The executor started on every number of updaters
InitPool ==
    /\ PipelineIdle
    /\ ValidateIdle
    /\ ProbeIdle
    /\ \E n \in 0..MaxPoolRecords :
         pool = [NoPool EXCEPT !.total = n, !.checks = [i \in 1..n |-> 0]]

NextPool == PoolSubmit \/ PoolStart \/ PoolFinish

SpecPool == InitPool /\ [][NextPool]_vars

-----------------------------------------------------------------------------
(* Properties *)

\* The records whose index the log holds under event e
Logged(e) == { log[k].i : k \in { k \in DOMAIN log : log[k].ev = e } }

ProbedRecords == Logged("probe_success") \cup Logged("probe_failure")

\* The summary has been printed
Reported == \E k \in DOMAIN log : log[k].ev = "summary"

\* The indices of the events e of the log, in the order they happened
RECURSIVE IndexSeq(_, _)
IndexSeq(events, e) ==
    IF events = <<>> THEN <<>>
    ELSE (IF Head(events).ev = e THEN <<Head(events).i>> ELSE <<>>)
         \o IndexSeq(Tail(events), e)

Ascending(s) == \A j, k \in DOMAIN s : j < k => s[j] < s[k]

\* The results of the realtime tasks that have returned one
TaskResults ==
    { futures[i].result : i \in { i \in DOMAIN futures :
                                    futures[i].state \in {"done", "collected"} } }

\* C1: in both pipelines check_url is called for a record only after its
\* validator has returned valid, never for a record it found invalid, and no
\* result has structure_valid = false together with url_success = true.
C1_NoProbeOfInvalid ==
    /\ \A k \in DOMAIN log :
         log[k].ev \in {"probe_success", "probe_failure"}
            => \E j \in 1..(k-1) : log[j] = Ev("validate_ok", log[k].i)
    /\ ProbedRecords \cap (Logged("validate_invalid") \cup Logged("validate_raised")) = {}
    /\ \A r \in TaskResults \cup Range(results) :
         /\ ~(~r.structure_valid /\ r.url_success)
         /\ ~r.structure_valid => ~r.probed

C1_Witness ==
    /\ pipeline = "realtime"
    /\ pc = "exited"
    /\ \E r \in Range(results) : ~r.structure_valid /\ r.structure_errors # <<>>
    /\ \E r \in Range(results) : r.structure_valid /\ r.url_success

\* What the validator makes of record i of the document
Verdict(i) == Validate(pipeline, document.records[i])

\* C2: for a parsable document the process exits with 0 if and only if no
\* record is structurally invalid and no probe failed, and with 1 otherwise;
\* an empty record list exits with 0.
C2_ExitStatus ==
    (pc = "exited" /\ document.state = "ok") =>
        /\ exit_status \in {0, 1}
        /\ exit_status = 0 <=>
             /\ \A i \in DOMAIN document.records : Verdict(i).valid
             /\ Logged("probe_failure") = {}
        /\ exit_status = 0 => ProbedRecords = DOMAIN document.records
        /\ document.records = <<>> => exit_status = 0

C2_Witness ==
    /\ pc = "exited"
    /\ document.state = "ok"
    /\ Len(document.records) = 2
    /\ exit_status = 0
    /\ successful = 2

\* The attempt on which a call of the static check_url returns: the first
\* one that gets a response, or the last one allowed
StaticDeciding(script) ==
    LET allowed == SubSeq(script, 1, MAX_RETRIES) IN
    IF \E k \in DOMAIN allowed : allowed[k].kind = "response"
    THEN allowed[Find(allowed, { o \in Range(allowed) : o.kind = "response" })]
    ELSE allowed[Len(allowed)]

IsZip(sample) == Len(sample) >= 4 /\ SubSeq(sample, 1, 4) = <<80, 75, 3, 4>>

\* C3: the static check_url returns success if and only if the deciding
\* attempt got a response of status 200 with a non-empty sample; the ZIP
\* signature decides the wording of the message only.
C3_StaticSuccess ==
    (p_in.policy = "static" /\ p_out.called) =>
        LET o == StaticDeciding(p_in.script)
            sample == Read(o.body, READ_SIZE)
        IN  /\ p_out.success <=> (o.kind = "response" /\ o.status = 200 /\ Len(sample) > 0)
            /\ p_out.success =>
                 /\ Len(sample) <= READ_SIZE
                 /\ IsZip(sample) <=> p_out.message = "OK (ZIP file, unknown bytes)"
            /\ o.status \in {204, 429} => ~p_out.success

C3_Witness ==
    /\ p_in.policy = "static"
    /\ p_out.called
    /\ p_out.success
    /\ p_out.attempts = 2
    /\ ~IsZip(Read(p_in.script[2].body, READ_SIZE))

\* C4: in the realtime check_url an attempt that ends with status 204 or 429,
\* as a response or as an HTTP error and whatever the body, makes the call
\* return success, and a response of status 200 with an empty sample makes it
\* return failure.
C4_RealtimeStatuses ==
    (p_in.policy = "realtime" /\ p_out.called) =>
        \A k \in 1..p_out.attempts :
            LET o == p_in.script[k] IN
            /\ o.status \in {204, 429} => (p_out.success /\ p_out.attempts = k)
            /\ (o.kind = "response" /\ o.status = 200 /\ Len(Read(o.body, READ_SIZE)) = 0)
                  => (~p_out.success /\ p_out.attempts = k)

C4_Witness ==
    /\ p_in.policy = "realtime"
    /\ p_out.called
    /\ p_out.success
    /\ p_out.status_code = 429
    /\ p_out.attempts = 2

InputOrder == [i \in 1..Len(document.records) |-> i]

\* C5: in the realtime pipeline, whatever the order in which the tasks
\* complete, the run ends with a report that holds one result for each input
\* record, in input order, and a failure list in input order.
C5_ReportInInputOrder ==
    (pipeline = "realtime" /\ pc = "exited" /\ document.state = "ok") =>
        /\ Reported
        /\ IndexSeq(log, "out") = InputOrder
        /\ [k \in DOMAIN results |-> results[k].index] = InputOrder
        /\ Ascending([k \in DOMAIN failed_feeds |-> failed_feeds[k].index])

\* Whenever the report is produced, it is in input order whatever the order
\* in which the results were collected.
ReportedInInputOrder ==
    (pipeline = "realtime" /\ Reported) =>
        /\ IndexSeq(log, "out") = InputOrder
        /\ [k \in DOMAIN results |-> results[k].index] = InputOrder
        /\ Ascending([k \in DOMAIN failed_feeds |-> failed_feeds[k].index])

\* C6: once the document has loaded, every record has a recorded outcome
\* (structural error, success or failure) when the process exits.
C6_EveryRecordRecorded ==
    (pc = "exited" /\ document.state = "ok") =>
        /\ Reported
        /\ structure_errors + successful + failed = Len(document.records)
        /\ Logged("out") = DOMAIN document.records

\* The counters are those of the run so far (static) or of the report (realtime)
Counted == pipeline = "static" \/ Reported

\* C7 as stated: a structurally invalid record is counted both in
\* structure_errors and in failed, and is never probed.
C7_InvalidCountsAsFailed ==
    /\ Counted =>
         /\ structure_errors = Cardinality(Logged("validate_invalid"))
         /\ failed = Cardinality(Logged("validate_invalid")) + Cardinality(Logged("probe_failure"))
    /\ Logged("validate_invalid") \cap ProbedRecords = {}

\* C7 as amended: a structurally invalid record is counted in structure_errors
\* and listed in the failure list with its errors, it is not counted in
\* failed, which counts the failed probes only, and it is never probed.
C7_InvalidCountedAndListed ==
    /\ Counted =>
         /\ structure_errors = Cardinality(Logged("validate_invalid"))
         /\ failed = Cardinality(Logged("probe_failure"))
         /\ Len(failed_feeds) = structure_errors + failed
         /\ \A i \in Logged("validate_invalid") :
              \E k \in DOMAIN failed_feeds :
                 /\ failed_feeds[k].index = i
                 /\ failed_feeds[k].error = Join(Verdict(i).errors)
    /\ Logged("validate_invalid") \cap ProbedRecords = {}

C7_Witness ==
    /\ Reported
    /\ structure_errors = 1
    /\ failed = 1
    /\ Len(failed_feeds) = 2

\* C8: when the document is missing or does not parse, or has no updaters
\* key (realtime), the process exits with 1 and nothing has been validated,
\* probed, submitted or printed for any record.
C8_InputErrorExits ==
    document.state # "ok" =>
        /\ pc \in {"load", "exited"}
        /\ pc = "exited" => exit_status = 1
        /\ log = <<>>
        /\ feeds = <<>>
        /\ futures = <<>>
        /\ results = <<>>

C8_Witness ==
    /\ pipeline = "realtime"
    /\ document.state = "no_updaters"
    /\ pc = "exited"
    /\ exit_status = 1

MissingMessage(key) == "Missing required field: " \o key

\* C9: for every record the validator returns (valid, errors) where errors
\* holds "Missing required field: <key>" exactly for the required keys the
\* record lacks, and valid is true exactly when errors is empty.
C9_MissingFieldErrors ==
    v_out.called =>
        /\ ~v_out.raised
        /\ \A key \in RequiredKeys(v_in.cat) :
             MissingMessage(key) \in Range(v_out.errors) <=> key \notin DOMAIN v_in.record
        /\ v_out.valid <=> v_out.errors = <<>>

\* Whenever the validator returns, its list names exactly the absent keys.
ReturnedMissingFieldErrors ==
    (v_out.called /\ ~v_out.raised) =>
        /\ \A key \in RequiredKeys(v_in.cat) :
             MissingMessage(key) \in Range(v_out.errors) <=> key \notin DOMAIN v_in.record
        /\ v_out.valid <=> v_out.errors = <<>>

TypeMessages ==
    { "Invalid type: " \o t \o " (expected 'gtfs')" : t \in StaticTypeValues }
    \cup { "Invalid type: " \o t \o " (expected valid OTP updater type)" : t \in RealtimeTypeValues }

\* The group of an error message: 1 missing field, 2 type, 3 source / url, 4 reference
ErrorGroup(message) ==
    IF message \in { MissingMessage(k) : k \in RequiredKeys("static") \cup RequiredKeys("realtime") }
    THEN 1
    ELSE IF message \in TypeMessages THEN 2
    ELSE IF message \in { "Invalid source URL: " \o u : u \in UrlValues }
                        \cup { "Invalid URL: " \o u : u \in UrlValues } THEN 3
    ELSE IF message \in { "Invalid reference URL: " \o u : u \in UrlValues } THEN 4
    ELSE 0

\* The place, in the declared order, of the key a missing-field message names
KeyPlace(required, message) ==
    CHOOSE n \in DOMAIN required : MissingMessage(required[n]) = message

RequiredFields(cat) ==
    IF cat = "static" THEN required_fields_static ELSE required_fields_realtime

\* C10: in a returned error list the missing-field errors come first, in the
\* declared order of the keys, then the type error, then the source / url
\* error, then the reference error; each of the last three at most once.
C10_ErrorOrder ==
    (v_out.called /\ ~v_out.raised) =>
        /\ \A k \in DOMAIN v_out.errors : ErrorGroup(v_out.errors[k]) # 0
        /\ \A j, k \in DOMAIN v_out.errors :
             j < k =>
                LET a == v_out.errors[j]
                    b == v_out.errors[k]
                IN  IF ErrorGroup(a) = 1 /\ ErrorGroup(b) = 1
                    THEN KeyPlace(RequiredFields(v_in.cat), a)
                            < KeyPlace(RequiredFields(v_in.cat), b)
                    ELSE ErrorGroup(a) < ErrorGroup(b)

C10_Witness ==
    /\ v_in.cat = "static"
    /\ v_out.called
    /\ ~v_out.raised
    /\ Len(v_out.errors) = 4
    /\ { ErrorGroup(v_out.errors[k]) : k \in 1..4 } = {1, 2, 3, 4}

\* The errors that reach check_url as exceptions and that it retries
Retryable(policy, o) ==
    /\ o.kind \in {"http_error", "url_error", "timeout", "exception"}
    /\ ~(policy = "realtime" /\ o.kind = "http_error" /\ o.status = 429)

\* C12: one call of check_url makes at least one and at most MAX_RETRIES
\* attempts, however many errors the network has in store, and sleeps exactly
\* once between two consecutive attempts, never after the last one.
C12_AttemptsBounded ==
    p_out.called =>
        /\ p_out.attempts \in 1..MAX_RETRIES
        /\ p_out.sleeps = p_out.attempts - 1
        /\ (\A k \in DOMAIN p_in.script : p_in.script[k].kind = "http_error"
                                          /\ p_in.script[k].status # 429)
              => p_out.attempts = MAX_RETRIES

C12_Witness ==
    /\ p_out.called
    /\ \A k \in DOMAIN p_in.script : p_in.script[k] = HTTPError(500, "Internal Server Error")
    /\ p_out.attempts = MAX_RETRIES
    /\ p_out.sleeps = MAX_RETRIES - 1
    /\ ~p_out.success

\* C13 as stated: check_url returns a failure only after MAX_RETRIES attempts,
\* whatever the kind of error.
C13_FailureOnlyAfterAllAttempts ==
    (p_out.called /\ ~p_out.success) => p_out.attempts = MAX_RETRIES

\* C13 as amended: an HTTP error, a connection failure, a timeout and any
\* other exception are retried until MAX_RETRIES attempts have been made; a
\* failure returned earlier comes from a response that is not accepted (an
\* empty 200 or another 2xx status), which is never retried.
C13_ExceptionsRetried ==
    p_out.called =>
        /\ \A k \in 1..(MAX_RETRIES - 1) :
             (p_out.attempts >= k /\ Retryable(p_in.policy, p_in.script[k]))
                => p_out.attempts > k
        /\ (~p_out.success /\ p_out.attempts < MAX_RETRIES)
              => p_in.script[p_out.attempts].kind = "response"
        /\ p_in.script[p_out.attempts].kind = "response"
              => \A k \in 1..(p_out.attempts - 1) : Retryable(p_in.policy, p_in.script[k])

C13_Witness ==
    /\ p_out.called
    /\ ~p_out.success
    /\ p_out.attempts = MAX_RETRIES
    /\ p_in.script[1].kind = "url_error"
    /\ p_in.script[2].kind = "exception"

\* C14: in the realtime check_url an HTTP 429 on an attempt that is made ends
\* the call there with success: no attempt and no sleep follows it.
C14_RateLimitShortCircuit ==
    (p_in.policy = "realtime" /\ p_out.called) =>
        \A k \in 1..MAX_RETRIES :
            (p_out.attempts >= k /\ p_in.script[k] = HTTPError(429, "Too Many Requests"))
               => /\ p_out.attempts = k
                  /\ p_out.sleeps = k - 1
                  /\ p_out.success
                  /\ p_out.status_code = 429
                  /\ p_out.message = "OK (Rate limited - endpoint is working)"

C14_Witness ==
    /\ p_in.policy = "realtime"
    /\ p_out.called
    /\ p_in.script[1] = HTTPError(429, "Too Many Requests")
    /\ p_in.script[2] = HTTPError(500, "Internal Server Error")
    /\ p_out.attempts = 1
    /\ p_out.sleeps = 0
    /\ p_out.success

\* The success message the classification of a sample calls for: protobuf by
\* the first byte, else JSON by the first byte after leading whitespace, else
\* generic
ClassMessage(o, sample) ==
    IF sample[1] \in {10, 18, 26}
    THEN "OK (GTFS-RT protobuf, " \o o.content_length \o " bytes)"
    ELSE IF StartsWith(Strip(sample), 123) \/ StartsWith(Strip(sample), 91)
    THEN "OK (JSON, " \o o.content_length \o " bytes)"
    ELSE "OK (" \o o.content_type \o ", " \o o.content_length \o " bytes)"

\* C15: in the realtime check_url a 200 response with a non-empty sample is a
\* success whose message says protobuf when the first byte is 0x0A, 0x12 or
\* 0x1A, whatever the length of the sample, else JSON, else generic.
C15_ContentClasses ==
    (p_in.policy = "realtime" /\ p_out.called) =>
        LET o == p_in.script[p_out.attempts]
            sample == Read(o.body, READ_SIZE)
        IN  (o.kind = "response" /\ o.status = 200 /\ Len(sample) > 0)
               => /\ p_out.success
                  /\ p_out.message = ClassMessage(o, sample)

\* C16: a failure returned on the last attempt carries the message of the
\* error of that attempt and, when that attempt got an HTTP status, that
\* status; the status code is 0 when no attempt got a response.
C16_FailureMessage ==
    (p_out.called /\ ~p_out.success /\ p_out.attempts = MAX_RETRIES) =>
        LET o == p_in.script[MAX_RETRIES] IN
        /\ o.kind = "http_error" =>
             /\ p_out.message = "HTTP " \o ToString(o.status) \o ": " \o o.reason
             /\ p_out.status_code = o.status
        /\ o.kind = "url_error" =>
             /\ p_out.message = "Connection error: " \o o.reason
             /\ p_out.status_code = 0
        /\ o.kind = "timeout" => (p_out.message = "Timeout" /\ p_out.status_code = 0)
        /\ o.kind = "exception" =>
             /\ p_out.message = "Error: " \o o.reason
             /\ p_out.status_code = 0
        /\ o.kind = "response" => p_out.status_code = o.status
        /\ (\A k \in 1..MAX_RETRIES : p_in.script[k].kind \in {"url_error", "timeout", "exception"})
              => p_out.status_code = 0

C16_Witness ==
    /\ p_out.called
    /\ ~p_out.success
    /\ p_out.attempts = MAX_RETRIES
    /\ p_in.script[1].kind = "timeout"
    /\ p_in.script[2] = HTTPError(404, "Not Found")
    /\ p_out.status_code = 404
    /\ p_out.message = "HTTP 404: Not Found"

\* A response the policy accepts
Accepted(policy, o) ==
    /\ o.kind = "response"
    /\ \/ o.status = 200 /\ Len(Read(o.body, READ_SIZE)) > 0
       \/ policy = "realtime" /\ o.status = 204

\* check_url of the policy
check_url(policy, script) ==
    IF policy = "static" THEN check_url_static(script) ELSE check_url_realtime(script)

\* C20: a retryable error on the first attempt followed by an accepted
\* response on the second yields success on the second attempt, with the
\* status of that response and with the message and status code the same
\* response gives when it arrives on the first attempt.
C20_LastAttemptDecides ==
    (/\ p_out.called
     /\ Retryable(p_in.policy, p_in.script[1])
     /\ Accepted(p_in.policy, p_in.script[2])) =>
        LET direct == check_url(p_in.policy, <<p_in.script[2], p_in.script[1], p_in.script[3]>>) IN
        /\ p_out.success
        /\ p_out.attempts = 2
        /\ p_out.status_code = p_in.script[2].status
        /\ direct.attempts = 1
        /\ p_out.message = direct.message
        /\ p_out.status_code = direct.status_code

C20_Witness ==
    /\ p_out.called
    /\ p_in.script[1] = HTTPError(500, "Internal Server Error")
    /\ p_in.script[2] = Response(200, ZipBody)
    /\ p_out.success
    /\ p_out.attempts = 2
    /\ p_out.status_code = 200

\* C17 as stated: in the static pipeline every record whose iteration has
\* ended, except the last of the input, is followed by the delay, whatever
\* its outcome.
C17_DelayAfterEveryRecord ==
    pipeline = "static" =>
        \A i \in 1..index : i < Len(feeds) => i \in Logged("delay")

\* The events of the records, without the summary
RecordEvents == SelectSeq(log, LAMBDA e : e.ev # "summary")

\* C17 as amended: the static pipeline handles the records one at a time in
\* input order; the delay follows every record that was probed, with success
\* or failure, and is not the last of the input, as the last thing done for
\* it; no delay follows a structurally invalid record or the last record.
C17_DelayAfterProbedRecords ==
    pipeline = "static" =>
        /\ IndexSeq(log, "out") = [k \in 1..Len(IndexSeq(log, "out")) |-> k]
        /\ Len(IndexSeq(log, "out")) >= index
        /\ \A j, k \in DOMAIN RecordEvents :
             j < k => RecordEvents[j].i <= RecordEvents[k].i
        /\ Logged("delay") = { i \in ProbedRecords : i < Len(feeds) }
        /\ Logged("delay") \cap Logged("validate_invalid") = {}
        /\ \A k \in DOMAIN RecordEvents :
             RecordEvents[k].ev = "delay"
                => \A j \in DOMAIN RecordEvents : j > k => RecordEvents[j].i > RecordEvents[k].i

C17_Witness ==
    /\ pipeline = "static"
    /\ Reported
    /\ Len(feeds) = 2
    /\ 1 \in Logged("probe_failure")
    /\ 1 \in Logged("delay")
    /\ 2 \in Logged("validate_invalid")
    /\ 2 \notin Logged("delay")

\* How many times index i waits in the queue of the pool
Queued(i) == Cardinality({ k \in DOMAIN pool.queue : pool.queue[k] = i })

\* C18: at every moment at most MAX_WORKERS checks are in progress, however
\* many updaters the document has, and every updater is checked by exactly
\* one task: once the tasks are submitted each index is either waiting once
\* or has been handed to check_updater once, never both and never twice.
C18_PoolBounded ==
    /\ pool.running <= MAX_WORKERS
    /\ pool.running + pool.finished + Len(pool.queue)
          = (IF pool.submitted THEN pool.total ELSE 0)
    /\ \A i \in 1..pool.total :
         /\ pool.checks[i] <= 1
         /\ pool.submitted => pool.checks[i] + Queued(i) = 1
         /\ (pool.submitted /\ pool.queue = <<>>) => pool.checks[i] = 1

C18_Witness ==
    /\ pool.total > MAX_WORKERS
    /\ pool.running = MAX_WORKERS
    /\ pool.queue # <<>>
    /\ pool.finished > 0

\* C19: when the summary is printed every record is counted in exactly one
\* of successful, failed and structure_errors, the three add up to the
\* number of records and the failure list has failed + structure_errors
\* entries; in the static loop the three add up to the number of records
\* processed so far.
C19_CountersPartition ==
    /\ Reported =>
         /\ successful + failed + structure_errors = Len(feeds)
         /\ Len(failed_feeds) = failed + structure_errors
         /\ successful = Cardinality(Logged("probe_success"))
         /\ Logged("probe_success") \cap Logged("probe_failure") = {}
         /\ Logged("validate_invalid") \cap ProbedRecords = {}
         /\ Logged("probe_success") \cup Logged("probe_failure") \cup Logged("validate_invalid")
               = 1..Len(feeds)
    /\ pipeline = "static" =>
         /\ successful + failed + structure_errors = index
         /\ Len(failed_feeds) = failed + structure_errors

C19_Witness ==
    /\ pipeline = "realtime"
    /\ Reported
    /\ Len(feeds) = 2
    /\ successful = 1
    /\ structure_errors = 1
    /\ failed = 0
    /\ Len(failed_feeds) = 1

====
